---- MODULE Spec2Model ----
(***************************************************************************)
(* Model of the CML predictive pipeline:                                   *)
(*   backend/app/ml/preprocess.py        CMLPreprocessor                   *)
(*   backend/app/ml/model_elimination.py CMLEliminationModel               *)
(*   backend/app/ml/model_forecast.py    CMLForecastModel                  *)
(*                                                                         *)
(* Probabilities and thresholds are fixed-point numbers in units of        *)
(* 1/Scale.  Dates are day numbers.  Library calls whose outcome the       *)
(* repository does not decide (train_test_split, XGBClassifier.fit, the    *)
(* metric functions, the file system, prophet) may succeed or raise.       *)
(***************************************************************************)
EXTENDS Integers, Sequences, FiniteSets, TLC

----------------------------------------------------------------------------
(* Bounds of the model                                                     *)

MaxBatch == 2          \* longest record batch handed to train / predict
MaxRuns == 2           \* training runs explored on one instance
MaxHist == 3           \* longest historical series handed to the forecaster
MaxPeriods == 2        \* largest forecast horizon
MaxRows == 2           \* most rows of a feature matrix handed to the explainer
MaxThreads == 2        \* concurrent callers of one loaded instance

----------------------------------------------------------------------------
(* Values                                                                  *)

None == "<None>"       \* Python None / NaN in an object column

Scale == 10            \* probabilities and thresholds are k/Scale

Probs == 0..Scale

Thresholds == {3, 7, 8}

\* Category strings in lexicographic order (np.unique sorts them).
StrOrder == <<"CS", "Elbow", "Gas", "High", "Low", "None", "Oil", "Unknown">>

Rank(s) == CHOOSE i \in 1..Len(StrOrder) : StrOrder[i] = s

\* a float: d / sqrt(D) when D > 0, and d / n when D = 0 (n > 0)
Real(d, D, n) == [d |-> d, D |-> D, n |-> n]

Float(x) == Real(x, 0, 1)

\* float('nan'), which is also what a None becomes in a numeric column
NaN == [nan |-> TRUE]

\* the square of the denominator of a float
Den2(z) == IF z.D > 0 THEN z.D ELSE z.n * z.n

SameNumber(a, b) ==
    /\ (a.d > 0) = (b.d > 0)
    /\ (a.d < 0) = (b.d < 0)
    /\ a.d * a.d * Den2(b) = b.d * b.d * Den2(a)

RECURSIVE Sum(_, _)
\* sum of f[i] over the index set S
Sum(f, S) ==
    IF S = {} THEN 0
    ELSE LET i == CHOOSE i \in S : TRUE IN f[i] + Sum(f, S \ {i})

\* the numeric attributes of the record kinds
Numbers(design, current, rate, remaining, years, inspections, quality) ==
    [design_thickness_mm |-> design, current_thickness_mm |-> current,
     average_corrosion_rate |-> rate, remaining_life_years |-> remaining,
     years_in_service |-> years, number_of_inspections |-> inspections,
     data_quality_score |-> quality]

\* the record kinds drawn as inputs: <<commodity, risk_level, label, numbers>>
Kinds ==
    { <<"Gas", "High", TRUE,
        Numbers(Float(10), Float(10), Float(2), Float(4), Float(2), Float(4), Float(8))>>,
      <<"Oil", None, FALSE,
        Numbers(Float(12), Float(8), Float(4), NaN, Float(6), Float(2), Float(8))>>,
      <<None, "Low", FALSE,
        Numbers(Float(10), Float(10), NaN, NaN, Float(2), Float(4), Float(6))>> }

CML(id, k) ==
    [cml_id |-> id, commodity |-> k[1], material_type |-> "CS",
     feature_type |-> "Elbow", risk_level |-> k[2],
     elimination_candidate |-> k[3]] @@ k[4]

\* the record batches drawn as inputs; a record's cml_id is its position
Batches ==
    UNION { { [i \in 1..n |-> CML(i, ks[i])] : ks \in [1..n -> Kinds] } : n \in 0..MaxBatch }

Range(s) == { s[i] : i \in DOMAIN s }

----------------------------------------------------------------------------
(* CMLPreprocessor                                                         *)

categorical_features == <<"commodity", "material_type", "feature_type", "risk_level">>

numerical_features ==
    <<"design_thickness_mm", "current_thickness_mm", "average_corrosion_rate",
      "remaining_life_years", "years_in_service", "number_of_inspections",
      "data_quality_score">>

\* the keys of the dict built per record, in insertion order
RawColumns ==
    <<"cml_id">> \o categorical_features \o numerical_features \o <<"elimination_candidate">>

\* a data frame: its column names in order and its rows
EmptyFrame == [columns |-> <<>>, rows |-> <<>>]

HasColumn(df, c) == c \in Range(df.columns)

\* CMLPreprocessor.__init__ ; fit_calls counts the fit_transform calls made
\* on the object and fit_in names the training run that last fitted its
\* encoders and scaler (history, not fields of the class)
NewPreprocessor ==
    [label_encoders |-> [c \in {} |-> <<>>], scaler_fitted |-> FALSE,
     scaler |-> [c \in {} |-> <<>>], fit_calls |-> 0, fit_in |-> 0]

_cmls_to_dataframe(cmls) ==
    IF cmls = <<>> THEN EmptyFrame
    ELSE [columns |-> RawColumns,
          rows |-> [i \in DOMAIN cmls |->
                      [cml_id |-> cmls[i].cml_id,
                       commodity |-> cmls[i].commodity,
                       material_type |-> cmls[i].material_type,
                       feature_type |-> cmls[i].feature_type,
                       risk_level |-> IF cmls[i].risk_level # None
                                      THEN cmls[i].risk_level ELSE "Unknown",
                       elimination_candidate |-> cmls[i].elimination_candidate]
                      @@ [c \in Range(numerical_features) |-> cmls[i][c]]]]

ColumnValues(df, c) == { df.rows[i][c] : i \in DOMAIN df.rows }

Count(df, c, v) == Cardinality({ i \in DOMAIN df.rows : df.rows[i][c] = v })

\* Series.mode(): the most frequent non-null values, sorted
ModeSet(df, c) ==
    { v \in ColumnValues(df, c) \ {None} :
        \A w \in ColumnValues(df, c) \ {None} : Count(df, c, w) <= Count(df, c, v) }

FillValue(df, c) ==
    IF ModeSet(df, c) # {}
    THEN CHOOSE v \in ModeSet(df, c) : \A w \in ModeSet(df, c) : Rank(v) <= Rank(w)
    ELSE "Unknown"

\* the rows of the frame whose cell in column c is not NaN
Present(df, c) == { i \in DOMAIN df.rows : df.rows[i][c] # NaN }

RECURSIVE SortedCells(_, _, _)
\* the cells of column c at the rows I, in ascending order (raw cells are
\* whole numbers)
SortedCells(df, c, I) ==
    IF I = {} THEN <<>>
    ELSE LET m == CHOOSE i \in I : \A j \in I : df.rows[i][c].d <= df.rows[j][c].d
         IN <<df.rows[m][c].d>> \o SortedCells(df, c, I \ {m})

\* Series.median(): NaN cells are skipped; NaN when no cell is left
Median(df, c) ==
    LET s == SortedCells(df, c, Present(df, c))
        m == Len(s)
    IN IF m = 0 THEN NaN
       ELSE IF m % 2 = 1 THEN Float(s[(m + 1) \div 2])
       ELSE IF (s[m \div 2] + s[m \div 2 + 1]) % 2 = 0
       THEN Float((s[m \div 2] + s[m \div 2 + 1]) \div 2)
       ELSE Real(s[m \div 2] + s[m \div 2 + 1], 0, 2)

_handle_missing_values(df) ==
    [df EXCEPT !.rows =
        [i \in DOMAIN df.rows |->
            [f \in DOMAIN df.rows[i] |->
                IF f \in Range(numerical_features)
                THEN (IF HasColumn(df, f) /\ df.rows[i][f] = NaN
                      THEN Median(df, f) ELSE df.rows[i][f])
                ELSE IF f \in Range(categorical_features) /\ HasColumn(df, f)
                        /\ df.rows[i][f] = None
                THEN FillValue(df, f)
                ELSE df.rows[i][f]]]]

RECURSIVE SortByRank(_)
\* np.unique: the distinct values in sorted order
SortByRank(S) ==
    IF S = {} THEN <<>>
    ELSE LET m == CHOOSE v \in S : \A w \in S : Rank(v) <= Rank(w)
         IN <<m>> \o SortByRank(S \ {m})

\* astype(str)
AsStr(v) == IF v = None THEN "None" ELSE v

\* LabelEncoder.fit: classes_
FitClasses(df, c) == SortByRank({ AsStr(v) : v \in ColumnValues(df, c) })

IndexOf(seq, v) == CHOOSE i \in DOMAIN seq : seq[i] = v

\* LabelEncoder.transform([x])[0]: zero-based position in classes_
LeTransform(classes, x) == IndexOf(classes, x) - 1

Sentinel == 0 - 1

\* an unseen label encoded as 0, the code of the first trained class
EncodeOrSentinel_Zero(classes, x) ==
    IF x \in Range(classes) THEN LeTransform(classes, x) ELSE 0

\* the lambda of transform: known label -> its code, unseen label -> -1
EncodeOrSentinel(classes, x) ==
    IF x \in Range(classes) THEN LeTransform(classes, x) ELSE Sentinel

Encoded(c) ==
    CASE c = "commodity" -> "commodity_encoded"
      [] c = "material_type" -> "material_type_encoded"
      [] c = "feature_type" -> "feature_type_encoded"
      [] c = "risk_level" -> "risk_level_encoded"

\* the columns added by _engineer_features, in the order it adds them
EngineeredColumns(df) ==
    (IF HasColumn(df, "average_corrosion_rate") /\ HasColumn(df, "years_in_service")
     THEN <<"total_corrosion_loss">> ELSE <<>>)
    \o (IF HasColumn(df, "current_thickness_mm") /\ HasColumn(df, "design_thickness_mm")
        THEN <<"thickness_ratio">> ELSE <<>>)
    \o (IF HasColumn(df, "number_of_inspections") /\ HasColumn(df, "years_in_service")
        THEN <<"inspection_frequency">> ELSE <<>>)
    \o (IF HasColumn(df, "remaining_life_years") THEN <<"risk_score">> ELSE <<>>)

\* a raw cell in halves (a median of two cells may end in .5)
Twice(z) == IF z.n = 2 THEN z.d ELSE 2 * z.d

\* StandardScaler.fit on column c: the count n and the sum S of its non-NaN
\* cells and D = n * (sum of squares) - S^2, so that mean_ = S / n and
\* var_ = D / n^2 (in halves)
FitScale(df, c) ==
    LET I == Present(df, c)
        n == Cardinality(I)
        x == [i \in I |-> Twice(df.rows[i][c])]
        S == Sum(x, I)
    IN [n |-> n, S |-> S, D |-> n * Sum([i \in I |-> x[i] * x[i]], I) - S * S]

\* StandardScaler.transform of one cell: (x - mean_) / scale_, where scale_
\* is sqrt(var_), or 1 for a column of zero variance
Scaled(p, cell) ==
    IF cell = NaN \/ p.n = 0 THEN NaN
    ELSE IF p.D > 0 THEN Real(p.n * Twice(cell) - p.S, p.D, 1)
    ELSE Real(p.n * Twice(cell) - p.S, 0, 2 * p.n)

ScaleFrame(df, cols, params) ==
    [df EXCEPT !.rows =
        [i \in DOMAIN df.rows |->
            [f \in DOMAIN df.rows[i] |->
                IF f \in Range(cols) THEN Scaled(params[f], df.rows[i][f])
                ELSE df.rows[i][f]]]]

\* 1 / 1e-6
EpsInv == 1000000

\* z + 1 = 0
IsMinusOne(z) == z.d < 0 /\ z.d * z.d = Den2(z)

\* z + 1e-6 = 0
IsMinusEps(z) ==
    /\ z.d < 0
    /\ Den2(z) % (z.d * z.d) = 0
    /\ (Den2(z) \div (z.d * z.d)) % EpsInv = 0
    /\ (Den2(z) \div (z.d * z.d)) \div EpsInv = EpsInv

\* a * b on floats
Times(a, b) ==
    [kind |-> IF a = NaN \/ b = NaN THEN "nan" ELSE "finite", factors |-> <<a, b>>]

\* num / (den + plus) on floats, plus being 1 or 1e-6: numpy gives inf for a
\* zero divisor, nan for 0 / 0 and for a NaN operand
Divide(num, den, plus) ==
    [kind |-> IF num = NaN \/ den = NaN THEN "nan"
              ELSE IF (IF plus = "1e-6" THEN IsMinusEps(den) ELSE IsMinusOne(den))
              THEN (IF num.d = 0 THEN "nan" ELSE "inf")
              ELSE "finite",
     num |-> num, den |-> den, plus |-> plus]

EngineeredCell(row, e) ==
    CASE e = "total_corrosion_loss" ->
            Times(row.average_corrosion_rate, row.years_in_service)
      [] e = "thickness_ratio" ->
            Divide(row.current_thickness_mm, row.design_thickness_mm, "1e-6")
      [] e = "inspection_frequency" ->
            Divide(row.number_of_inspections, row.years_in_service, "1")
      [] e = "risk_score" ->
            Divide(Float(1), row.remaining_life_years, "1")

_engineer_features(df) ==
    [df EXCEPT !.columns = df.columns \o EngineeredColumns(df),
               !.rows = [i \in DOMAIN df.rows |->
                           df.rows[i] @@
                           [e \in Range(EngineeredColumns(df)) |->
                               EngineeredCell(df.rows[i], e)]]]

InFrame(df, names) == SelectSeq(names, LAMBDA c : HasColumn(df, c))

\* the categorical columns fit_transform encodes: those present in the frame
FitEncodedCols(df) == InFrame(df, categorical_features)

\* the categorical columns transform encodes: present and with an encoder
TransformEncodedCols(pre, df) ==
    SelectSeq(categorical_features,
              LAMBDA c : HasColumn(df, c) /\ c \in DOMAIN pre.label_encoders)

EncodedNames(cols) == [i \in DOMAIN cols |-> Encoded(cols[i])]

\* CMLPreprocessor.fit_transform: the refitted preprocessor and the table
fit_transform(pre, cmls) ==
    LET Encode(df, cols, enc) ==
            [df EXCEPT
                !.columns = df.columns \o EncodedNames(cols),
                !.rows = [i \in DOMAIN df.rows |->
                            df.rows[i] @@
                            [e \in { Encoded(c) : c \in Range(cols) } |->
                                LET c == CHOOSE c \in Range(cols) : Encoded(c) = e
                                IN LeTransform(enc[c], AsStr(df.rows[i][c]))]]]
        Fit(df, cols, numerical_cols, enc, params) ==
            [pre |-> [label_encoders |-> enc @@ pre.label_encoders,
                      scaler_fitted |-> IF numerical_cols # <<>> THEN TRUE
                                        ELSE pre.scaler_fitted,
                      scaler |-> IF numerical_cols # <<>> THEN params ELSE pre.scaler,
                      fit_calls |-> IF pre.fit_calls < 2 THEN pre.fit_calls + 1 ELSE 2,
                      fit_in |-> pre.fit_in],
             df |-> _engineer_features(
                        ScaleFrame(Encode(df, cols, enc), numerical_cols, params)),
             imputed |-> df]
        Columns(df, cols, numerical_cols) ==
            Fit(df, cols, numerical_cols,
                [c \in Range(cols) |-> FitClasses(df, c)],
                [c \in Range(numerical_cols) |-> FitScale(df, c)])
        Frame(df) == Columns(df, FitEncodedCols(df), InFrame(df, numerical_features))
    IN Frame(_handle_missing_values(_cmls_to_dataframe(cmls)))

\* transform adding the labels it has not seen to the fitted encoders
transform_Refit(pre, cmls) ==
    LET Refit(r) ==
            IF InFrame(r.imputed, numerical_features) # <<>> /\ ~pre.scaler_fitted
            THEN [raised |-> "NotFittedError", df |-> EmptyFrame, pre |-> pre,
                  imputed |-> r.imputed]
            ELSE [raised |-> "none", df |-> r.df,
                  pre |-> [pre EXCEPT !.label_encoders = r.pre.label_encoders],
                  imputed |-> r.imputed]
    IN Refit(fit_transform(pre, cmls))

\* CMLPreprocessor.transform: the table, or the error the scaler raises, and
\* the preprocessor after the call
transform(pre, cmls) ==
    LET Encode(df, cols) ==
            [df EXCEPT
                !.columns = df.columns \o EncodedNames(cols),
                !.rows = [i \in DOMAIN df.rows |->
                            df.rows[i] @@
                            [e \in { Encoded(c) : c \in Range(cols) } |->
                                LET c == CHOOSE c \in Range(cols) : Encoded(c) = e
                                IN EncodeOrSentinel(pre.label_encoders[c],
                                                    AsStr(df.rows[i][c]))]]]
        Columns(df, numerical_cols) ==
            IF numerical_cols # <<>> /\ ~pre.scaler_fitted
            THEN [raised |-> "NotFittedError", df |-> EmptyFrame, pre |-> pre,
                  imputed |-> df]
            ELSE [raised |-> "none",
                  df |-> _engineer_features(
                             ScaleFrame(Encode(df, TransformEncodedCols(pre, df)),
                                        numerical_cols, pre.scaler)),
                  pre |-> pre, imputed |-> df]
        Frame(df) == Columns(df, InFrame(df, numerical_features))
    IN Frame(_handle_missing_values(_cmls_to_dataframe(cmls)))

----------------------------------------------------------------------------
(* CMLEliminationModel                                                     *)

VARIABLES
    model,            \* self.model
    preprocessor,     \* self.preprocessor
    feature_columns,  \* self.feature_columns
    metrics,          \* self.metrics
    disk,             \* the file at self.model_path
    runs,             \* number of XGBClassifier objects created so far
    call,             \* the last call made on the instance and its outcome
    stage,            \* a CMLPreprocessor used on its own
    fit_df,           \* the table its last fit_transform returned
    out,              \* its last call and what the call returned
    thresholding,     \* a probability vector thresholded at two thresholds
    forecast,         \* a CMLForecastModel.predict call and its outcome
    explainer,        \* self.explainer of a ModelExplainer
    explanation,      \* the last call made on the ModelExplainer and its result
    threads           \* the callers of the instance and the locals of their calls

\* Python None held by self.model / self.feature_columns
NoneObj == [py |-> "None"]

EmptyDict == <<>>

NoFile == [kind |-> "missing"]

CorruptFile == [kind |-> "corrupt"]

BundleKeys == {"model", "preprocessor", "feature_columns", "metrics"}

\* the list comprehension of train: every column but the id and the label
FeatureCols(df) ==
    SelectSeq(df.columns, LAMBDA c : c \notin {"cml_id", "elimination_candidate"})

\* the dict save_model pickles
ModelData(m, p, fc, mt) ==
    [model |-> m, preprocessor |-> p, feature_columns |-> fc, metrics |-> mt]

Restrict(f, S) == [k \in S |-> f[k]]

\* the held-out rows of train_test_split(test_size=0.2): ceil(n / 5)
TestSamples(n) == (n + 4) \div 5

Labels(cmls) == { cmls[i].elimination_candidate : i \in DOMAIN cmls }

LabelCount(cmls, l) ==
    Cardinality({ i \in DOMAIN cmls : cmls[i].elimination_candidate = l })

\* train_test_split(stratify=y) cannot split: no row left for training, or
\* a class with a single member
SplitMustFail(cmls) ==
    \/ Len(cmls) - TestSamples(Len(cmls)) < 1
    \/ \E l \in Labels(cmls) : LabelCount(cmls, l) < 2

Code(x, c) == IF c \in DOMAIN x THEN x[c] ELSE 0

\* XGBClassifier.fit with random_state=42: the fitted ensemble is a fixed
\* function of the training table
FitTrees(df) ==
    Cardinality({ i \in DOMAIN df.rows : Code(df.rows[i], "commodity_encoded") = 0 }) % 2

\* XGBClassifier.predict_proba(X)[:, 1] for one row: a fixed function of the
\* fitted ensemble and of the row's features
predict_proba(m, x) ==
    (((m.trees + 1) * (Code(x, "commodity_encoded") + 2)
      + Code(x, "risk_level_encoded") + 1) * 3) % (Scale + 1)

Fields(m, p, fc, mt) ==
    [model |-> m, preprocessor |-> p, feature_columns |-> fc, metrics |-> mt]

\* CMLEliminationModel.load_model on the fields st and the file: the
\* assignments run in order until a key is missing; nothing is raised
load_model(st, file) ==
    IF file.kind # "bundle"
    THEN [st |-> st, failed |-> TRUE]
    ELSE LET d == DOMAIN file.data
             got1 == "model" \in d
             got2 == got1 /\ "preprocessor" \in d
             got3 == got2 /\ "feature_columns" \in d
         IN [st |-> Fields(IF got1 THEN file.data.model ELSE st.model,
                           IF got2 THEN file.data.preprocessor ELSE st.preprocessor,
                           IF got3 THEN file.data.feature_columns ELSE st.feature_columns,
                           IF got3
                           THEN (IF "metrics" \in d THEN file.data.metrics ELSE EmptyDict)
                           ELSE st.metrics),
             failed |-> ~got3]

\* save_model leaving the preprocessor out of the pickled dict
save_model_NoPreprocessor(st, file, how) ==
    CASE how = "makedirs" -> file
      [] how = "dump" -> CorruptFile
      [] OTHER -> [kind |-> "bundle",
                   data |-> [model |-> st.model, feature_columns |-> st.feature_columns,
                             metrics |-> st.metrics]]

\* CMLEliminationModel.save_model: the file after the call; how tells
\* whether os.makedirs raised, pickle.dump raised, or neither
save_model(st, file, how) ==
    CASE how = "makedirs" -> file
      [] how = "dump" -> CorruptFile
      [] OTHER -> [kind |-> "bundle",
                   data |-> ModelData(st.model, st.preprocessor, st.feature_columns,
                                      st.metrics)]

\* the record kept of a call: what it raised, whether it logged a failure,
\* the steps it reached, and what predict was given and returned
Outcome(op, raised, failed, steps, cmls, threshold, results) ==
    [op |-> op, raised |-> raised, failed |-> failed, steps |-> steps,
     cmls |-> cmls, threshold |-> threshold, results |-> results]

NoResults == <<>>

\* CMLEliminationModel.__init__ on a model_path holding file
init(file) ==
    LET fresh == Fields(NoneObj, NewPreprocessor, NoneObj, EmptyDict)
    IN IF file.kind # "missing" THEN load_model(fresh, file)
       ELSE [st |-> fresh, failed |-> FALSE]

TrainOutcomes == {"split", "fit", "metrics", "makedirs", "dump", "ok"}

TrainSteps == <<"fit_transform", "train_test_split", "fit", "metrics", "save_model">>

StepsUpto(upto) ==
    CASE upto = "split" -> SubSeq(TrainSteps, 1, 2)
      [] upto = "fit" -> SubSeq(TrainSteps, 1, 3)
      [] upto = "metrics" -> SubSeq(TrainSteps, 1, 4)
      [] OTHER -> TrainSteps

Raised(upto) ==
    CASE upto = "ok" -> "none"
      [] upto = "split" -> "ValueError"
      [] upto = "fit" -> "XGBoostError"
      [] upto = "metrics" -> "ValueError"
      [] OTHER -> "OSError"

\* CMLEliminationModel.train(cmls) on the fields st: the fields, the file
\* and the outcome after the call; upto names the library call that raises
\* ("ok": none does).  The run is named n + 1, the number its classifier
\* gets; the classifier carries the column list of its run, and a
\* preprocessor whose encoders and scaler the run refits carries its name.
train(st, file, n, cmls, upto) ==
    LET n_test == TestSamples(Len(cmls))
        new_metrics == [scores |-> n + 1,
                        train_samples |-> Len(cmls) - n_test,
                        test_samples |-> n_test]
        Assign(st1, st2, st3, st4) ==
            [st |-> CASE upto = "split" -> st2
                      [] upto \in {"fit", "metrics"} -> st3
                      [] OTHER -> st4,
             file |-> IF upto \in {"makedirs", "dump", "ok"}
                      THEN save_model(st4, file, upto) ELSE file,
             runs |-> IF upto = "split" THEN n ELSE n + 1,
             call |-> Outcome("train", Raised(upto), FALSE, StepsUpto(upto), <<>>, 0, NoResults)]
        Fields4(st1, st2, st3) == Assign(st1, st2, st3, [st3 EXCEPT !.metrics = new_metrics])
        Fields3(st1, st2, xgb) == Fields4(st1, st2, [st2 EXCEPT !.model = xgb])
        Fields2(ft, st1, feature_cols) ==
            Fields3(st1, [st1 EXCEPT !.feature_columns = feature_cols],
                    [run |-> n + 1, fitted |-> upto # "fit",
                     trees |-> IF upto # "fit" THEN FitTrees(ft.df) ELSE 0,
                     feature_columns |-> feature_cols])
        Fields1(ft, st1) ==
            IF ~HasColumn(ft.df, "elimination_candidate")
            THEN \* df['elimination_candidate'] raises on the frame of an empty batch
                 [st |-> st1, file |-> file, runs |-> n,
                  call |-> Outcome("train", "KeyError", FALSE, <<"fit_transform">>,
                                   <<>>, 0, NoResults)]
            ELSE Fields2(ft, st1, FeatureCols(ft.df))
        Run(ft) == Fields1(ft, [st EXCEPT !.preprocessor = ft.pre])
    IN Run([fit_transform(st.preprocessor, cmls)
                EXCEPT !.pre.fit_in = IF cmls # <<>> THEN n + 1 ELSE @])

Max(a, b) == IF a >= b THEN a ELSE b

ModelUnavailable == "ValueError: Model not trained or loaded"

\* the comparison turned round
Prediction_Flipped(probability, threshold) == IF probability <= threshold THEN 1 ELSE 0

\* predictions = (probabilities >= threshold).astype(int)
Prediction(probability, threshold) == IF probability >= threshold THEN 1 ELSE 0

\* X = df[self.feature_columns]: one row restricted to the feature columns
SelectRow(row, fc) == Restrict(row, Range(fc) \cap DOMAIN row)

\* the list of class-1 probabilities of the batch
Probabilities(m, df, fc) ==
    [i \in DOMAIN df.rows |-> predict_proba(m, SelectRow(df.rows[i], fc))]

\* the results built with the default threshold whatever the caller supplied
BuildResults_Baked(cmls, probabilities, threshold) ==
    [id \in { cmls[i].cml_id : i \in DOMAIN cmls } |->
        LET i == CHOOSE i \in DOMAIN cmls : cmls[i].cml_id = id
        IN [probability |-> probabilities[i],
            confidence |-> Max(probabilities[i], Scale - probabilities[i]),
            recommendation |-> IF probabilities[i] >= 7 THEN "eliminate" ELSE "keep",
            threshold_used |-> threshold]]

\* the results dict of predict, keyed by cml_id (a later record with the
\* same id replaces an earlier one)
BuildResults(cmls, probabilities, threshold) ==
    [id \in { cmls[i].cml_id : i \in DOMAIN cmls } |->
        LET i == CHOOSE i \in DOMAIN cmls :
                    /\ cmls[i].cml_id = id
                    /\ \A j \in DOMAIN cmls : cmls[j].cml_id = id => j <= i
        IN [probability |-> probabilities[i],
            confidence |-> Max(probabilities[i], Scale - probabilities[i]),
            recommendation |-> IF Prediction(probabilities[i], threshold) = 1
                               THEN "eliminate" ELSE "keep",
            threshold_used |-> threshold]]

\* predict testing self.model only after the preprocessor has run
predict_TransformFirst(st, cmls, threshold) ==
    LET t == transform(st.preprocessor, cmls)
    IN IF t.raised # "none"
       THEN Outcome("predict", t.raised, FALSE, <<"transform">>, cmls, threshold, NoResults)
       ELSE IF st.model = NoneObj
       THEN Outcome("predict", "ValueError: Model not trained or loaded", FALSE,
                    <<"transform">>, cmls, threshold, NoResults)
       ELSE IF st.feature_columns = NoneObj
               \/ \E c \in Range(st.feature_columns) : ~HasColumn(t.df, c)
       THEN Outcome("predict", "KeyError", FALSE, <<"transform">>, cmls, threshold, NoResults)
       ELSE IF ~st.model.fitted
       THEN Outcome("predict", "NotFittedError", FALSE,
                    <<"transform", "predict_proba">>, cmls, threshold, NoResults)
       ELSE Outcome("predict", "none", FALSE, <<"transform", "predict_proba">>,
                    cmls, threshold,
                    BuildResults(cmls,
                                 Probabilities(st.model, t.df, st.feature_columns),
                                 threshold))

\* CMLEliminationModel.predict(cmls, threshold) on the fields st
predict(st, cmls, threshold) ==
    IF st.model = NoneObj
    THEN Outcome("predict", "ValueError: Model not trained or loaded", FALSE,
                 <<>>, cmls, threshold, NoResults)
    ELSE LET t == transform(st.preprocessor, cmls)
         IN IF t.raised # "none"
            THEN Outcome("predict", t.raised, FALSE, <<"transform">>, cmls, threshold, NoResults)
            ELSE IF st.feature_columns = NoneObj
                    \/ \E c \in Range(st.feature_columns) : ~HasColumn(t.df, c)
            THEN Outcome("predict", "KeyError", FALSE, <<"transform">>, cmls, threshold, NoResults)
            ELSE IF ~st.model.fitted
            THEN Outcome("predict", "NotFittedError", FALSE,
                         <<"transform", "predict_proba">>, cmls, threshold, NoResults)
            ELSE Outcome("predict", "none", FALSE, <<"transform", "predict_proba">>,
                         cmls, threshold,
                         BuildResults(cmls,
                                      Probabilities(st.model, t.df, st.feature_columns),
                                      threshold))

\* XGBClassifier.feature_importances_: one score per training column
feature_importances_(m, fc) == [k \in DOMAIN fc |-> m.trees + 1]

\* CMLEliminationModel.get_feature_importance on the fields st
get_feature_importance(st) ==
    IF st.model = NoneObj \/ st.feature_columns = NoneObj THEN EmptyDict
    ELSE [c \in Range(st.feature_columns) |->
             feature_importances_(st.model, st.feature_columns)[
                 CHOOSE k \in DOMAIN st.feature_columns : st.feature_columns[k] = c]]

\* CMLEliminationModel.get_metrics on the fields st
get_metrics(st) == st.metrics

\* the frame a caller reads being the one another caller has just built
FrameRead_Shared(t, thr) ==
    IF \E u \in DOMAIN thr : u # t /\ thr[u].df # EmptyFrame
    THEN thr[CHOOSE u \in DOMAIN thr : u # t /\ thr[u].df # EmptyFrame].df
    ELSE thr[t].df

\* df in X = df[self.feature_columns]: the local frame of the calling thread
FrameRead(t, thr) == thr[t].df

----------------------------------------------------------------------------
(* CMLForecastModel                                                        *)

\* a historical series: <<ds, y>> points with strictly increasing dates;
\* dates are day numbers, the i-th possible date is 30 * (i - 1)
Days == { 30 * (i - 1) : i \in 1..MaxHist }

YValues == {8, 9, 10}

Histories ==
    UNION { { h \in [1..n -> [ds : Days, y : YValues]] :
                \A i \in 1..(n - 1) : h[i].ds < h[i + 1].ds } : n \in 0..MaxHist }

ModelTypes == {"prophet", "linear", "arima"}

MinOf(S) == CHOOSE m \in S : \A x \in S : m <= x

MaxOf(S) == CHOOSE m \in S : \A x \in S : x <= m

\* a number num/den + (k/100) * sqrt(var[1]/var[2]); den > 0, var[2] > 0
Val(num, den, k, var) == [num |-> num, den |-> den, k |-> k, var |-> var]

\* the columns of a forecast frame
ForecastColumns == <<"ds", "yhat", "yhat_lower", "yhat_upper">>

\* the future dates counted from the last historical date itself
LinearRows_FromLast(h, periods) ==
    LET last_date == MaxOf({ h[i].ds : i \in 1..Len(h) })
    IN [i \in 1..periods |->
          [ds |-> last_date + 30 * (i - 1),
           yhat |-> Val(h[1].y, 1, 0, <<1, 1>>),
           yhat_lower |-> Val(h[1].y, 1, 0 - 196, <<1, 1>>),
           yhat_upper |-> Val(h[1].y, 1, 196, <<1, 1>>)]]

\* LinearRegression().fit(X, y) on days since the first measurement, then
\* the frame built from its predictions: sums for the least-squares line,
\* the residuals' variance, and one row per future date
LinearRows(h, periods) ==
    LET n == Len(h)
        first == MinOf({ h[i].ds : i \in 1..n })
        last_date == MaxOf({ h[i].ds : i \in 1..n })
        x == [i \in 1..n |-> h[i].ds - first]
        Sx == Sum(x, 1..n)
        Sy == Sum([i \in 1..n |-> h[i].y], 1..n)
        Sxx == Sum([i \in 1..n |-> x[i] * x[i]], 1..n)
        Sxy == Sum([i \in 1..n |-> x[i] * h[i].y], 1..n)
        det == n * Sxx - Sx * Sx
        \* slope = A / B; a single sample or a single date gives slope 0
        A == IF det = 0 THEN 0 ELSE n * Sxy - Sx * Sy
        B == IF det = 0 THEN 1 ELSE det
        Num(d) == Sy * B + A * (n * d - Sx)       \* prediction at day d, over n * B
        res == [i \in 1..n |-> h[i].y * n * B - Num(x[i])]
        var == <<Sum([i \in 1..n |-> res[i] * res[i]], 1..n), n * (n * B) * (n * B)>>
    IN [i \in 1..periods |->
          LET ds == last_date + 30 * i
          IN [ds |-> ds,
              yhat |-> Val(Num(ds - first), n * B, 0, var),
              yhat_lower |-> Val(Num(ds - first), n * B, 0 - 196, var),
              yhat_upper |-> Val(Num(ds - first), n * B, 196, var)]]

NoRows == <<>>

\* CMLForecastModel._linear_forecast for a horizon of at least one period:
\* the rows, or the error raised when there is no sample to fit on
_linear_forecast(h, periods) ==
    IF Len(h) = 0
    THEN [raised |-> "ValueError", columns |-> <<>>, rows |-> NoRows,
          strategy |-> "linear"]
    ELSE [raised |-> "none", columns |-> ForecastColumns,
          rows |-> LinearRows(h, periods), strategy |-> "linear"]

\* the step of the primary strategy that raises ("ok": none does)
PrimaryOutcomes ==
    {"ImportError", "fit", "make_future_dataframe", "predict", "filter", "ok"}

\* what Prophet.predict returns when nothing fails: the history rows
\* followed by one row per future month end (months of 30 days), with the
\* trend next to the forecast columns; its numbers are Prophet's
ProphetFrame(h, periods) ==
    LET last_date == MaxOf({ h[i].ds : i \in 1..Len(h) })
        row(ds, y) == [ds |-> ds,
                       trend |-> Val(y, 1, 0, <<0, 1>>),
                       yhat |-> Val(y, 1, 0, <<0, 1>>),
                       yhat_lower |-> Val(y - 1, 1, 0, <<0, 1>>),
                       yhat_upper |-> Val(y + 1, 1, 0, <<0, 1>>)]
    IN [columns |-> <<"ds", "trend", "yhat_lower", "yhat_upper", "yhat">>,
        rows |-> [i \in 1..Len(h) |-> row(h[i].ds, h[i].y)]
                 \o [i \in 1..periods |->
                        row((last_date \div 30 + i) * 30, h[Len(h)].y)]]

\* forecast[['ds', 'yhat', 'yhat_lower', 'yhat_upper']]
SelectColumns(frame, cols) ==
    [columns |-> cols,
     rows |-> [i \in DOMAIN frame.rows |-> Restrict(frame.rows[i], Range(cols))]]

\* the rows dated on or after the last historical date
FutureOnly_Inclusive(frame, last_date) ==
    [frame EXCEPT !.rows = SelectSeq(frame.rows, LAMBDA r : r.ds >= last_date)]

\* forecast[forecast['ds'] > df['ds'].max()]
FutureOnly(frame, last_date) ==
    [frame EXCEPT !.rows = SelectSeq(frame.rows, LAMBDA r : r.ds > last_date)]

\* the failure of the primary strategy handed on to the caller
_prophet_forecast_Reraise(h, periods, primary) ==
    IF primary = "ok"
    THEN LET f == FutureOnly(SelectColumns(ProphetFrame(h, periods), ForecastColumns),
                             MaxOf({ h[i].ds : i \in 1..Len(h) }))
         IN [raised |-> "none", columns |-> f.columns, rows |-> f.rows,
             strategy |-> "prophet"]
    ELSE [raised |-> primary, columns |-> <<>>, rows |-> NoRows, strategy |-> "prophet"]

\* CMLForecastModel._prophet_forecast; primary names the Prophet step that
\* raises ("ok": none does)
_prophet_forecast(h, periods, primary) ==
    IF primary = "ok"
    THEN LET f == FutureOnly(SelectColumns(ProphetFrame(h, periods), ForecastColumns),
                             MaxOf({ h[i].ds : i \in 1..Len(h) }))
         IN [raised |-> "none", columns |-> f.columns, rows |-> f.rows,
             strategy |-> "prophet"]
    ELSE _linear_forecast(h, periods)

\* CMLForecastModel(model_type).predict(historical_data, periods)
forecast_predict(model_type, h, periods, primary) ==
    IF model_type = "prophet" THEN _prophet_forecast(h, periods, primary)
    ELSE IF model_type = "linear" THEN _linear_forecast(h, periods)
    ELSE _linear_forecast(h, periods)

----------------------------------------------------------------------------
(* ModelExplainer                                                          *)

\* the names handed to explain_prediction
FeatureNames == <<"f1", "f2", "f3", "f4", "f5", "f6">>

FeatureLists == { SubSeq(FeatureNames, 1, 2), FeatureNames }

\* the number of columns of the feature matrix X
XWidth == 6

\* the positive-class attributions of one row of X, one per column of X
\* (X has six columns, or two)
AttributionRows ==
    { <<3, 0 - 1, 0, 2, 0 - 2, 1>>, <<0, 0, 0, 0, 0, 0>>, <<0 - 1, 1, 0 - 3, 3, 2, 0 - 2>>,
      <<0 - 2, 1>> }

\* the feature matrices handed to explain_prediction, each row standing for
\* the attributions the explainer computes for it
Matrices ==
    { x \in UNION { [1..n -> AttributionRows] : n \in 0..MaxRows } :
        \A i, j \in DOMAIN x : Len(x[i]) = Len(x[j]) }

\* the shapes in which an explainer reports: shap_values as a list with one
\* array per class or as one array, expected_value as an array with one
\* entry per class or as one number
ExplainerForms == [list_values : BOOLEAN, array_base : BOOLEAN]

\* the explainer emits one attribution set per class
PerClass(e) == e.list_values \/ e.array_base

Negated(matrix) == [i \in DOMAIN matrix |-> [k \in DOMAIN matrix[i] |-> 0 - matrix[i][k]]]

\* the attribution sets of both classes in one array, the class on the last
\* axis
Stacked(matrix) ==
    [i \in DOMAIN matrix |-> [k \in DOMAIN matrix[i] |-> <<0 - matrix[i][k], matrix[i][k]>>]]

\* the base values of class 0 and class 1 (log-odds, in tenths)
BaseValues == <<0 - 4, 4>>

\* self.explainer.shap_values(X): one set for a single-output model; for a
\* model with one output per class, a list of one array per class, or one
\* array of ndim 3 from the releases of the library that stack the classes
shap_values(e, x) ==
    IF e.list_values THEN [is_list |-> TRUE, ndim |-> 2, value |-> <<Negated(x), x>>]
    ELSE IF e.array_base THEN [is_list |-> FALSE, ndim |-> 3, value |-> Stacked(x)]
    ELSE [is_list |-> FALSE, ndim |-> 2, value |-> x]

\* self.explainer.expected_value
expected_value(e) ==
    IF e.array_base THEN [is_ndarray |-> TRUE, value |-> BaseValues]
    ELSE [is_ndarray |-> FALSE, value |-> BaseValues[2]]

Abs(v) == IF v < 0 THEN 0 - v ELSE v

Min(a, b) == IF a <= b THEN a ELSE b

\* list(zip(names, values))
Zip(names, values) ==
    [k \in 1..Min(Len(names), Len(values)) |-> <<names[k], values[k]>>]

RECURSIVE SortByAbs_Signed(_, _)
\* the pairs sorted by their signed values, largest first
SortByAbs_Signed(pairs, I) ==
    IF I = {} THEN <<>>
    ELSE LET m == CHOOSE i \in I : \A j \in I :
                      \/ pairs[i][2] > pairs[j][2]
                      \/ pairs[i][2] = pairs[j][2] /\ i <= j
         IN <<pairs[m]>> \o SortByAbs_Signed(pairs, I \ {m})

RECURSIVE SortByAbs(_, _)
\* sort(key=abs, reverse=True) of the pairs at the indices I: largest
\* magnitude first, equal magnitudes in their original order
SortByAbs(pairs, I) ==
    IF I = {} THEN <<>>
    ELSE LET m == CHOOSE i \in I : \A j \in I :
                      \/ Abs(pairs[i][2]) > Abs(pairs[j][2])
                      \/ Abs(pairs[i][2]) = Abs(pairs[j][2]) /\ i <= j
         IN <<pairs[m]>> \o SortByAbs(pairs, I \ {m})

\* ModelExplainer._create_explanation: the features named as increasing
\* and as decreasing the elimination probability (none named: "No
\* significant factors identified")
_create_explanation(top_features) ==
    LET names(sel) == [k \in DOMAIN sel |-> sel[k][1]]
    IN [increasing |-> names(SelectSeq(top_features, LAMBDA fv : fv[2] > 0)),
        decreasing |-> names(SelectSeq(top_features, LAMBDA fv : fv[2] < 0))]

\* dict(zip(names, values))
DictOf(pairs) ==
    [nm \in { pairs[k][1] : k \in DOMAIN pairs } |->
        LET k == CHOOSE k \in DOMAIN pairs :
                    /\ pairs[k][1] = nm
                    /\ \A j \in DOMAIN pairs : pairs[j][1] = nm => j <= k
        IN pairs[k][2]]

\* ModelExplainer._get_global_importance: np.abs(shap_values).mean(axis=0)
\* per column, as the sum over the rows and the number of rows
_get_global_importance(sv, feature_names) ==
    LET width == IF sv = <<>> THEN XWidth ELSE Len(sv[1])
        importance == [k \in 1..width |->
                          [sum |-> Sum([i \in DOMAIN sv |-> Abs(sv[i][k])], DOMAIN sv),
                           rows |-> Len(sv)]]
    IN DictOf(Zip(feature_names, importance))

\* ModelExplainer.initialize: self.explainer after the call; built is the
\* explainer shap.TreeExplainer returns, or None when it raises
initialize(e, built) == IF built = NoneObj THEN e ELSE built

\* ModelExplainer.explain_prediction(X, feature_names); raises tells
\* whether the explainer raises while computing.  On an array of ndim 3 the
\* cells of a row are arrays: the sort (its key compared) or float(v)
\* raises for the first row that has a feature, and the except clause
\* returns {}.
explain_prediction(e, x, feature_names, raises) ==
    IF e = NoneObj THEN EmptyDict
    ELSE IF raises THEN EmptyDict
    ELSE LET got == shap_values(e, x)
             sv == IF got.is_list THEN got.value[2] ELSE got.value
             base == expected_value(e)
             base_value == IF base.is_ndarray THEN base.value[2] ELSE base.value
         IN IF got.ndim = 3 /\ \E i \in DOMAIN x : Zip(feature_names, sv[i]) # <<>>
            THEN EmptyDict
            ELSE
            [explanations |->
                [i \in 1..Len(x) |->
                    LET feature_contributions ==
                            SortByAbs(Zip(feature_names, sv[i]),
                                      DOMAIN Zip(feature_names, sv[i]))
                        top_features ==
                            SubSeq(feature_contributions, 1,
                                   Min(5, Len(feature_contributions)))
                    IN [shap_values |-> DictOf(Zip(feature_names, sv[i])),
                        top_features |-> top_features,
                        explanation |-> _create_explanation(top_features),
                        base_value |-> base_value]],
             feature_importance |-> _get_global_importance(sv, feature_names)]

----------------------------------------------------------------------------
(* The state machines                                                      *)

lifeVars == <<model, preprocessor, feature_columns, metrics, disk, runs, call>>

stageVars == <<stage, fit_df, out>>

explainVars == <<explainer, explanation>>

restVars == <<explainer, explanation, threads>>

vars ==
    <<model, preprocessor, feature_columns, metrics, disk, runs, call,
      stage, fit_df, out, thresholding, forecast, explainer, explanation, threads>>

Self == Fields(model, preprocessor, feature_columns, metrics)

SetSelf(st) ==
    /\ model' = st.model
    /\ preprocessor' = st.preprocessor
    /\ feature_columns' = st.feature_columns
    /\ metrics' = st.metrics

IsSelf(st) ==
    /\ model = st.model
    /\ preprocessor = st.preprocessor
    /\ feature_columns = st.feature_columns
    /\ metrics = st.metrics

\* the default threshold of predict (0.7)
DefaultThreshold == 7

\* the batches the instance is trained and queried on: records of one kind
LifeBatches ==
    { b \in Batches : \A i, j \in DOMAIN b :
        /\ b[i].commodity = b[j].commodity
        /\ b[i].risk_level = b[j].risk_level
        /\ b[i].elimination_candidate = b[j].elimination_candidate }

NoCall == Outcome("__init__", "none", FALSE, <<>>, <<>>, 0, NoResults)

NoOut ==
    [op |-> "__init__", raised |-> "none", df |-> EmptyFrame, cmls |-> <<>>,
     imputed |-> EmptyFrame]

NoThresholding ==
    [probabilities |-> <<>>, t1 |-> 0, t2 |-> 0, applied |-> FALSE, r1 |-> <<>>, r2 |-> <<>>]

NoForecast ==
    [model_type |-> "prophet", history |-> <<>>, periods |-> 0, primary |-> "ok",
     called |-> FALSE, raised |-> "none", columns |-> <<>>, rows |-> NoRows,
     strategy |-> "none"]

\* nothing has been called yet on the free-standing objects
NoExplanation ==
    [op |-> "__init__", last_initialize |-> "none", x |-> <<>>, feature_names |-> <<>>,
     raises |-> FALSE, result |-> EmptyDict]

IdleThread ==
    [op |-> "none", pc |-> "idle", cmls |-> <<>>, threshold |-> 0, df |-> EmptyFrame,
     X |-> <<>>, probabilities |-> <<>>, returned |-> <<>>]

\* nothing has been called yet on the explainer, and no caller is running
IdleRest ==
    /\ explainer = NoneObj
    /\ explanation = NoExplanation
    /\ threads = [t \in 1..MaxThreads |-> IdleThread]

Idle ==
    /\ stage = NewPreprocessor
    /\ fit_df = EmptyFrame
    /\ out = NoOut
    /\ thresholding = NoThresholding
    /\ forecast = NoForecast
    /\ IdleRest

\* the instance is constructed on a path where no file exists
Init ==
    /\ IsSelf(init(NoFile).st)
    /\ disk = NoFile
    /\ runs = 0
    /\ call = NoCall
    /\ Idle

\* CMLEliminationModel(model_path) constructed again on the same path
Construct ==
    LET r == init(disk)
    IN /\ SetSelf(r.st)
       /\ call' = Outcome("__init__", "none", r.failed,
                          IF disk.kind # "missing" THEN <<"load_model">> ELSE <<>>,
                          <<>>, 0, NoResults)
       /\ UNCHANGED <<disk, runs, stageVars, thresholding, forecast, restVars>>

LoadModel ==
    LET r == load_model(Self, disk)
    IN /\ SetSelf(r.st)
       /\ call' = Outcome("load_model", "none", r.failed, <<>>, <<>>, 0, NoResults)
       /\ UNCHANGED <<disk, runs, stageVars, thresholding, forecast, restVars>>

Train(cmls, upto) ==
    LET r == train(Self, disk, runs, cmls, upto)
    IN /\ runs < MaxRuns
       /\ cmls = <<>> => upto = "split"
       /\ upto = "split" \/ ~SplitMustFail(cmls)
       /\ SetSelf(r.st)
       /\ disk' = r.file
       /\ runs' = r.runs
       /\ call' = r.call
       /\ UNCHANGED <<stageVars, thresholding, forecast, restVars>>

Predict(cmls, threshold) ==
    /\ call' = predict(Self, cmls, threshold)
    /\ UNCHANGED <<model, preprocessor, feature_columns, metrics, disk, runs>>
    /\ UNCHANGED <<stageVars, thresholding, forecast, restVars>>

\* what another writer of the bundle format can leave at model_path: the
\* bundle without one of its four keys
ExternalFiles(file) ==
    IF file.kind = "bundle" /\ DOMAIN file.data = BundleKeys
    THEN { [kind |-> "bundle", data |-> Restrict(file.data, BundleKeys \ {k})] :
            k \in BundleKeys }
    ELSE {}

ExternalWrite(file) ==
    /\ file # disk
    /\ disk' = file
    /\ call' = Outcome("external", "none", FALSE, <<>>, <<>>, 0, NoResults)
    /\ UNCHANGED <<model, preprocessor, feature_columns, metrics, runs>>
    /\ UNCHANGED <<stageVars, thresholding, forecast, restVars>>

Next ==
    \/ Construct
    \/ LoadModel
    \/ \E cmls \in LifeBatches, upto \in TrainOutcomes : Train(cmls, upto)
    \/ \E cmls \in LifeBatches : Predict(cmls, DefaultThreshold)
    \/ \E file \in ExternalFiles(disk) : ExternalWrite(file)

Spec == Init /\ [][Next]_vars

\* the instance is constructed on a path where an earlier train left its bundle
InitPredict ==
    /\ \E cmls \in Batches :
        /\ cmls # <<>> /\ ~SplitMustFail(cmls)
        /\ disk = train(init(NoFile).st, NoFile, 0, cmls, "ok").file
    /\ IsSelf(init(disk).st)
    /\ runs = 1
    /\ call = Outcome("__init__", "none", FALSE, <<"load_model">>, <<>>, 0, NoResults)
    /\ Idle

NextPredict == \E cmls \in Batches, threshold \in Thresholds : Predict(cmls, threshold)

SpecPredict == InitPredict /\ [][NextPredict]_vars

\* CMLPreprocessor.fit_transform on the free-standing preprocessor
FitTransform(cmls) ==
    LET r == fit_transform(stage, cmls)
    IN /\ stage' = r.pre
       /\ fit_df' = r.df
       /\ out' = [op |-> "fit_transform", raised |-> "none", df |-> r.df,
                  cmls |-> cmls, imputed |-> r.imputed]
       /\ UNCHANGED <<lifeVars, thresholding, forecast, restVars>>

\* CMLPreprocessor.transform on the free-standing preprocessor
Transform(cmls) ==
    LET r == transform(stage, cmls)
    IN /\ stage' = r.pre
       /\ out' = [op |-> "transform", raised |-> r.raised, df |-> r.df,
                  cmls |-> cmls, imputed |-> r.imputed]
       /\ UNCHANGED <<fit_df, lifeVars, thresholding, forecast, restVars>>

NextStage ==
    \/ \E cmls \in Batches : FitTransform(cmls)
    \/ \E cmls \in Batches : Transform(cmls)

SpecStage == Init /\ [][NextStage]_vars

\* a probability vector and two thresholds, nothing computed yet
InitThreshold ==
    /\ IsSelf(init(NoFile).st)
    /\ disk = NoFile
    /\ runs = 0
    /\ call = NoCall
    /\ stage = NewPreprocessor
    /\ fit_df = EmptyFrame
    /\ out = NoOut
    /\ forecast = NoForecast
    /\ IdleRest
    /\ \E n \in 0..MaxBatch : \E probabilities \in [1..n -> Probs] :
       \E t1 \in Thresholds, t2 \in Thresholds :
          /\ t1 <= t2
          /\ thresholding = [NoThresholding EXCEPT !.probabilities = probabilities,
                                                   !.t1 = t1, !.t2 = t2]

\* the recommendations predict builds from the vector at each threshold
ApplyThresholds ==
    LET cmls == [i \in DOMAIN thresholding.probabilities |-> [cml_id |-> i]]
    IN /\ ~thresholding.applied
       /\ thresholding' =
            [thresholding EXCEPT
                !.applied = TRUE,
                !.r1 = BuildResults(cmls, thresholding.probabilities, thresholding.t1),
                !.r2 = BuildResults(cmls, thresholding.probabilities, thresholding.t2)]
       /\ UNCHANGED <<lifeVars, stageVars, forecast, restVars>>

NextThreshold == ApplyThresholds

SpecThreshold == InitThreshold /\ [][NextThreshold]_vars

\* a CMLForecastModel of some model_type, a history and a horizon, and the
\* Prophet step that will raise if Prophet is reached; nothing called yet.
\* Prophet refuses to fit fewer than 2 rows.
InitForecast ==
    /\ IsSelf(init(NoFile).st)
    /\ disk = NoFile
    /\ runs = 0
    /\ call = NoCall
    /\ stage = NewPreprocessor
    /\ fit_df = EmptyFrame
    /\ out = NoOut
    /\ thresholding = NoThresholding
    /\ IdleRest
    /\ \E model_type \in ModelTypes, h \in Histories, periods \in 1..MaxPeriods,
          primary \in PrimaryOutcomes :
          /\ primary = "ok" => Len(h) >= 2
          /\ model_type # "prophet" => primary = "ok"
          /\ forecast = [NoForecast EXCEPT !.model_type = model_type, !.history = h,
                                           !.periods = periods, !.primary = primary]

\* CMLForecastModel(model_type).predict(history, periods)
Forecast ==
    LET r == forecast_predict(forecast.model_type, forecast.history, forecast.periods,
                              forecast.primary)
    IN /\ ~forecast.called
       /\ forecast' = [forecast EXCEPT !.called = TRUE, !.raised = r.raised,
                                       !.columns = r.columns, !.rows = r.rows,
                                       !.strategy = r.strategy]
       /\ UNCHANGED <<lifeVars, stageVars, thresholding, restVars>>

NextForecast == Forecast

SpecForecast == InitForecast /\ [][NextForecast]_vars

\* ModelExplainer.initialize(background_data); built is what
\* shap.TreeExplainer returns, None standing for its raising
Initialize(built) ==
    /\ explainer' = initialize(explainer, built)
    /\ explanation' = [NoExplanation EXCEPT
                          !.op = "initialize",
                          !.last_initialize = IF built = NoneObj THEN "failed" ELSE "ok"]
    /\ UNCHANGED <<lifeVars, stageVars, thresholding, forecast, threads>>

\* ModelExplainer.explain_prediction(X, feature_names)
ExplainPrediction(x, feature_names, raises) ==
    /\ explanation' = [op |-> "explain_prediction",
                       last_initialize |-> explanation.last_initialize,
                       x |-> x, feature_names |-> feature_names, raises |-> raises,
                       result |-> explain_prediction(explainer, x, feature_names, raises)]
    /\ UNCHANGED <<explainer, lifeVars, stageVars, thresholding, forecast, threads>>

\* the calls of predict that run concurrently: on batches of one kind, at
\* the default threshold or at 0.3
ThreadCalls == LifeBatches \X {3, DefaultThreshold}

Finished(th, outcome) ==
    [IdleThread EXCEPT !.op = th.op, !.pc = "done", !.cmls = th.cmls,
                       !.threshold = th.threshold, !.returned = outcome]

\* thread t enters predict(cmls, threshold)
CallPredict(t, cmls, threshold) ==
    /\ threads[t].pc = "idle"
    /\ threads' = [threads EXCEPT ![t] =
                      [IdleThread EXCEPT !.op = "predict", !.pc = "check",
                                         !.cmls = cmls, !.threshold = threshold]]
    /\ UNCHANGED <<lifeVars, stageVars, thresholding, forecast, explainVars>>

\* if self.model is None: raise
CheckModel(t) ==
    LET th == threads[t]
    IN /\ th.pc = "check"
       /\ threads' = [threads EXCEPT ![t] =
                         IF model = NoneObj
                         THEN Finished(th, Outcome("predict", ModelUnavailable, FALSE, <<>>,
                                                   th.cmls, th.threshold, NoResults))
                         ELSE [th EXCEPT !.pc = "transform"]]
       /\ UNCHANGED <<lifeVars, stageVars, thresholding, forecast, explainVars>>

\* df = self.preprocessor.transform(cmls)
DoTransform(t) ==
    LET th == threads[t]
        r == transform(preprocessor, th.cmls)
    IN /\ th.pc = "transform"
       /\ preprocessor' = r.pre
       /\ threads' = [threads EXCEPT ![t] =
                         IF r.raised # "none"
                         THEN Finished(th, Outcome("predict", r.raised, FALSE, <<"transform">>,
                                                   th.cmls, th.threshold, NoResults))
                         ELSE [th EXCEPT !.pc = "select", !.df = r.df]]
       /\ UNCHANGED <<model, feature_columns, metrics, disk, runs, call>>
       /\ UNCHANGED <<stageVars, thresholding, forecast, explainVars>>

\* X = df[self.feature_columns]
DoSelect(t) ==
    LET th == threads[t]
        df == FrameRead(t, threads)
    IN /\ th.pc = "select"
       /\ threads' = [threads EXCEPT ![t] =
                         IF \/ feature_columns = NoneObj
                            \/ \E c \in Range(feature_columns) : ~HasColumn(df, c)
                         THEN Finished(th, Outcome("predict", "KeyError", FALSE, <<"transform">>,
                                                   th.cmls, th.threshold, NoResults))
                         ELSE [th EXCEPT !.pc = "predict_proba", !.df = EmptyFrame,
                                         !.X = [i \in DOMAIN df.rows |->
                                                  SelectRow(df.rows[i], feature_columns)]]]
       /\ UNCHANGED <<lifeVars, stageVars, thresholding, forecast, explainVars>>

\* probabilities = self.model.predict_proba(X)[:, 1]
DoProba(t) ==
    LET th == threads[t]
    IN /\ th.pc = "predict_proba"
       /\ threads' = [threads EXCEPT ![t] =
                         IF ~model.fitted
                         THEN Finished(th, Outcome("predict", "NotFittedError", FALSE,
                                                   <<"transform", "predict_proba">>,
                                                   th.cmls, th.threshold, NoResults))
                         ELSE [th EXCEPT !.pc = "results", !.X = <<>>,
                                         !.probabilities =
                                             [i \in DOMAIN th.X |->
                                                 predict_proba(model, th.X[i])]]]
       /\ UNCHANGED <<lifeVars, stageVars, thresholding, forecast, explainVars>>

\* the thresholding and the loop that builds the results dict
DoResults(t) ==
    LET th == threads[t]
    IN /\ th.pc = "results"
       /\ threads' = [threads EXCEPT ![t] =
                         Finished(th, Outcome("predict", "none", FALSE,
                                              <<"transform", "predict_proba">>,
                                              th.cmls, th.threshold,
                                              BuildResults(th.cmls, th.probabilities,
                                                           th.threshold)))]
       /\ UNCHANGED <<lifeVars, stageVars, thresholding, forecast, explainVars>>

\* thread t calls get_feature_importance()
GetFeatureImportance(t) ==
    /\ threads[t].pc = "idle"
    /\ threads' = [threads EXCEPT ![t] =
                      Finished([IdleThread EXCEPT !.op = "get_feature_importance"],
                               get_feature_importance(Self))]
    /\ UNCHANGED <<lifeVars, stageVars, thresholding, forecast, explainVars>>

\* thread t calls get_metrics()
GetMetrics(t) ==
    /\ threads[t].pc = "idle"
    /\ threads' = [threads EXCEPT ![t] =
                      Finished([IdleThread EXCEPT !.op = "get_metrics"], get_metrics(Self))]
    /\ UNCHANGED <<lifeVars, stageVars, thresholding, forecast, explainVars>>

\* the caller of thread t takes the returned value
Return(t) ==
    /\ threads[t].pc = "done"
    /\ threads' = [threads EXCEPT ![t] = IdleThread]
    /\ UNCHANGED <<lifeVars, stageVars, thresholding, forecast, explainVars>>

NextConcurrent ==
    \E t \in 1..MaxThreads :
        \/ \E c \in ThreadCalls : CallPredict(t, c[1], c[2])
        \/ CheckModel(t)
        \/ DoTransform(t)
        \/ DoSelect(t)
        \/ DoProba(t)
        \/ DoResults(t)
        \/ GetFeatureImportance(t)
        \/ GetMetrics(t)
        \/ Return(t)

\* the instance is constructed on a path where an earlier train left its
\* bundle, and is then shared by the threads
SpecConcurrent == InitPredict /\ [][NextConcurrent]_vars

NextExplain ==
    \/ \E built \in ExplainerForms \cup {NoneObj} : Initialize(built)
    \/ \E x \in Matrices, feature_names \in FeatureLists, raises \in BOOLEAN :
          ExplainPrediction(x, feature_names, raises)

\* a ModelExplainer right after its construction
SpecExplain == Init /\ [][NextExplain]_vars

----------------------------------------------------------------------------
(* Properties                                                              *)

\* C1: predict on an instance whose model is None raises the "model not
\* trained or loaded" error before the preprocessor is touched, returns no
\* results and leaves model, preprocessor, feature_columns and metrics as
\* they were.
C1_PredictWithoutModel ==
    [][(call'.op = "predict" /\ model = NoneObj) =>
          /\ call'.raised = ModelUnavailable
          /\ call'.steps = <<>>
          /\ call'.results = NoResults
          /\ UNCHANGED <<model, preprocessor, feature_columns, metrics>>]_vars

\* predict was refused on an instance that a failed train left without a model
C1_Witness ==
    /\ call.op = "predict"
    /\ call.raised = ModelUnavailable
    /\ call.cmls # <<>>
    /\ model = NoneObj
    /\ preprocessor.fit_calls > 0

\* C2: whenever load_model fails, model, preprocessor, feature_columns and
\* metrics are all what they were before the call.
C2_FailedLoadKeepsFields ==
    [][(call'.op = "load_model" /\ call'.failed) =>
          UNCHANGED <<model, preprocessor, feature_columns, metrics>>]_vars

\* C3: load_model succeeds only on a bundle that holds all four parts.
C3_LoadNeedsFourParts ==
    (call.op = "load_model" /\ ~call.failed) =>
        (disk.kind = "bundle" /\ DOMAIN disk.data = BundleKeys)

\* C4: after a train call that completes, the file holds the instance's
\* model, preprocessor, feature_columns and metrics, and both a new instance
\* constructed on the path and load_model end with exactly those four parts.
C4_SaveThenLoad ==
    (call.op = "train" /\ call.raised = "none") =>
        /\ disk.kind = "bundle"
        /\ DOMAIN disk.data = BundleKeys
        /\ \A k \in BundleKeys : disk.data[k] = Self[k]
        /\ init(disk) = [st |-> Self, failed |-> FALSE]
        /\ load_model(Self, disk) = [st |-> Self, failed |-> FALSE]
        /\ load_model(init(NoFile).st, disk) = [st |-> Self, failed |-> FALSE]

\* a train call has completed and left a fitted model in memory
C4_Witness ==
    /\ call.op = "train"
    /\ call.raised = "none"
    /\ model # NoneObj
    /\ model.fitted
    /\ metrics # EmptyDict

\* C9: fit_transform runs on a preprocessor only while it is unfitted (so
\* once per preprocessor, never refitting in place), and transform runs only
\* on a preprocessor that has been fitted.
C9_FitOnceBeforeTransform ==
    [][/\ call'.op = "train" => preprocessor.fit_calls = 0
       /\ (call'.op = "predict" /\ "transform" \in Range(call'.steps)) =>
             preprocessor.fit_calls >= 1]_vars

RowOf(c, i) == LET id == c.cmls[i].cml_id IN c.results[id]

\* C7: in a predict call that returns, every record has a result; its
\* recommendation is "eliminate" exactly when its class-1 probability is at
\* least the threshold of that call and "keep" otherwise; threshold_used is
\* that threshold; and the call changes no field of the instance.
C7_ThresholdPerCall ==
    /\ [][call'.op = "predict" =>
             UNCHANGED <<model, preprocessor, feature_columns, metrics>>]_vars
    /\ [](call.op = "predict" /\ call.raised = "none" =>
             LET df == transform(preprocessor, call.cmls).df
             IN /\ DOMAIN call.results = { call.cmls[i].cml_id : i \in DOMAIN call.cmls }
                /\ \A i \in DOMAIN call.cmls :
                      LET r == RowOf(call, i)
                      IN /\ r.probability =
                              predict_proba(model, SelectRow(df.rows[i], feature_columns))
                         /\ r.recommendation \in {"eliminate", "keep"}
                         /\ r.recommendation = "eliminate" <=>
                                r.probability >= call.threshold
                         /\ r.threshold_used = call.threshold)

\* a call at a threshold other than the default returned both recommendations
C7_Witness ==
    /\ call.op = "predict"
    /\ call.raised = "none"
    /\ call.threshold # DefaultThreshold
    /\ \E i, j \in DOMAIN call.cmls :
          /\ RowOf(call, i).recommendation = "eliminate"
          /\ RowOf(call, j).recommendation = "keep"

Eliminated(results) ==
    Cardinality({ id \in DOMAIN results : results[id].recommendation = "eliminate" })

\* C8: for one probability vector and thresholds t1 <= t2, the number of
\* "eliminate" recommendations at t2 is at most the number at t1.
C8_ThresholdMonotone ==
    thresholding.applied =>
        Eliminated(thresholding.r2) <= Eliminated(thresholding.r1)

\* raising the threshold removed some but not all "eliminate" recommendations
C8_Witness ==
    /\ thresholding.applied
    /\ thresholding.t1 < thresholding.t2
    /\ 0 < Eliminated(thresholding.r2)
    /\ Eliminated(thresholding.r2) < Eliminated(thresholding.r1)

\* C5: a transform after fit_transform returns a table with the column
\* names, in order, of the table fit_transform returned.
C5_ColumnStability ==
    (out.op = "transform" /\ stage.fit_calls >= 1) =>
        /\ out.raised = "none"
        /\ out.df.columns = fit_df.columns

SeenAtFit(c, v) == \E j \in DOMAIN fit_df.rows : AsStr(fit_df.rows[j][c]) = v

C10_OnlyShortHistoryFails ==
    forecast.called => (forecast.raised # "none" <=> Len(forecast.history) < 2)

\* thickness_ratio is 1 up to the 1e-6 added to its divisor: the dividend
\* and the divisor are the same nonzero number
NearOne(q) == q.kind = "finite" /\ q.num.d # 0 /\ SameNumber(q.num, q.den)

\* C15: whenever a record's design_thickness_mm and current_thickness_mm are
\* equal (10.0 and 10.0 for instance), its thickness_ratio in the table
\* returned by fit_transform or transform is approximately 1.0.
C15_EqualThicknessRatioOne ==
    (out.op \in {"fit_transform", "transform"} /\ out.raised = "none") =>
        \A i \in DOMAIN out.cmls :
            (/\ out.cmls[i].design_thickness_mm # NaN
             /\ out.cmls[i].design_thickness_mm = out.cmls[i].current_thickness_mm) =>
                NearOne(out.df.rows[i].thickness_ratio)

\* C16: after the imputation step of fit_transform or transform no numeric
\* and no categorical cell is missing; a missing numeric cell holds the
\* median of its column in the batch, a missing categorical cell the column
\* mode, or "Unknown" when the column has no mode.
C16_ImputationFillsAll ==
    out.op \in {"fit_transform", "transform"} =>
        \A i \in DOMAIN out.cmls :
            /\ \A c \in Range(numerical_features) :
                  /\ out.imputed.rows[i][c] # NaN
                  /\ out.cmls[i][c] = NaN =>
                        out.imputed.rows[i][c] = Median(_cmls_to_dataframe(out.cmls), c)
            /\ \A c \in Range(categorical_features) :
                  /\ out.imputed.rows[i][c] # None
                  /\ out.cmls[i][c] = None =>
                        out.imputed.rows[i][c]
                            \in ModeSet(_cmls_to_dataframe(out.cmls), c) \cup {"Unknown"}

\* C19: a transform call leaves the label encoders, their class lists and
\* the scaler of the preprocessor as they were before the call.
C19_TransformKeepsFit ==
    [][out'.op = "transform" => stage' = stage]_vars

\* a fitted preprocessor transformed a batch holding an unseen commodity and
\* a missing corrosion rate
C19_Witness ==
    /\ out.op = "transform"
    /\ out.raised = "none"
    /\ stage.fit_calls >= 1
    /\ \E i \in DOMAIN out.cmls :
          /\ out.df.rows[i].commodity_encoded = Sentinel
          /\ out.cmls[i].average_corrosion_rate = NaN

Quotients == {"thickness_ratio", "inspection_frequency", "risk_score"}

\* C20: in every table returned by fit_transform or transform, the divisors
\* design_thickness + 1e-6, years_in_service + 1 and remaining_life_years + 1
\* are nonzero, so thickness_ratio, inspection_frequency and risk_score
\* computed from present values are finite.
C20_DenominatorsNonzero ==
    (out.op \in {"fit_transform", "transform"} /\ out.raised = "none") =>
        \A i \in DOMAIN out.df.rows : \A e \in Quotients :
            LET q == out.df.rows[i][e]
            IN (q.num # NaN /\ q.den # NaN) => q.kind = "finite"

\* C11: when the primary strategy fails at any of its steps, and when
\* model_type is 'linear' or 'arima', the call ends exactly as the linear
\* fallback on the same history and periods does; and every forecast handed
\* back, by either strategy, has the columns ds, yhat, yhat_lower, yhat_upper.
C11_FallbackTransparent ==
    forecast.called =>
        /\ (forecast.model_type # "prophet" \/ forecast.primary # "ok") =>
              LET l == _linear_forecast(forecast.history, forecast.periods)
              IN /\ forecast.raised = l.raised
                 /\ forecast.columns = l.columns
                 /\ forecast.rows = l.rows
        /\ forecast.raised = "none" =>
              /\ forecast.columns = <<"ds", "yhat", "yhat_lower", "yhat_upper">>
              /\ \A i \in DOMAIN forecast.rows :
                    DOMAIN forecast.rows[i] = Range(forecast.columns)

\* the primary strategy failed and the caller got the fallback's rows
C11_Witness ==
    /\ forecast.called
    /\ forecast.model_type = "prophet"
    /\ forecast.primary \in {"make_future_dataframe", "filter"}
    /\ forecast.raised = "none"
    /\ forecast.strategy = "linear"
    /\ Len(forecast.rows) = forecast.periods

\* C12: every date of a returned forecast is later than the latest
\* historical date, whichever strategy produced the forecast.
C12_ForecastCausality ==
    (forecast.called /\ forecast.raised = "none") =>
        \A i \in DOMAIN forecast.rows : \A j \in DOMAIN forecast.history :
            forecast.rows[i].ds > forecast.history[j].ds

\* the primary strategy returned its future rows for a history of two points
C12_Witness ==
    /\ forecast.called
    /\ forecast.strategy = "prophet"
    /\ Len(forecast.history) >= 2
    /\ Len(forecast.rows) = forecast.periods
    /\ forecast.periods >= 2

\* a and b are the same point estimate with margins a.k and b.k (in
\* hundredths of the residuals' standard deviation)
SamePoint(a, b) == a.num = b.num /\ a.den = b.den /\ a.var = b.var

ValLess(a, b) == SamePoint(a, b) /\ a.var[1] > 0 /\ a.k < b.k

ValLeq(a, b) == SamePoint(a, b) /\ (a.var[1] = 0 \/ a.k <= b.k)

LinearShape ==
    /\ Len(forecast.rows) = forecast.periods
    /\ \A i \in DOMAIN forecast.rows :
          /\ forecast.rows[i].ds
                = forecast.history[Len(forecast.history)].ds + 30 * i
          /\ i > 1 => forecast.rows[i - 1].ds < forecast.rows[i].ds
          /\ forecast.rows[i].yhat.k = 0
          /\ forecast.rows[i].yhat_lower.k = 0 - 196
          /\ forecast.rows[i].yhat_upper.k = 196

\* C13 as stated: for a history of at least 2 points the linear forecast
\* has exactly `periods` rows dated 30, 60, ... days after the last
\* historical date, its bounds are yhat -/+ 1.96 standard deviations of the
\* residuals, and yhat_lower < yhat < yhat_upper in every row.
C13_LinearIntervalStrict ==
    (forecast.called /\ forecast.strategy = "linear" /\ Len(forecast.history) >= 2) =>
        /\ LinearShape
        /\ \A i \in DOMAIN forecast.rows :
              /\ ValLess(forecast.rows[i].yhat_lower, forecast.rows[i].yhat)
              /\ ValLess(forecast.rows[i].yhat, forecast.rows[i].yhat_upper)

\* C13 as amended: the same, with yhat_lower <= yhat <= yhat_upper (the
\* three are equal when the residuals are all zero).
C13_LinearInterval ==
    (forecast.called /\ forecast.strategy = "linear" /\ Len(forecast.history) >= 2) =>
        /\ LinearShape
        /\ \A i \in DOMAIN forecast.rows :
              /\ ValLeq(forecast.rows[i].yhat_lower, forecast.rows[i].yhat)
              /\ ValLeq(forecast.rows[i].yhat, forecast.rows[i].yhat_upper)

\* a linear forecast of two periods from three points that are not on a line
C13_Witness ==
    /\ forecast.called
    /\ forecast.strategy = "linear"
    /\ Len(forecast.history) = 3
    /\ Len(forecast.rows) = 2
    /\ ValLess(forecast.rows[2].yhat_lower, forecast.rows[2].yhat)

\* C14: an explain_prediction call made when the most recent initialize
\* failed, or when initialize was never called, returns the empty result.
C14_FailedInitializeGivesEmpty ==
    (explanation.op = "explain_prediction" /\ explanation.last_initialize # "ok") =>
        explanation.result = EmptyDict

\* the last explain_prediction call returned explanations for a matrix whose
\* columns are the names it was given
Explained ==
    /\ explanation.op = "explain_prediction"
    /\ explanation.result # EmptyDict
    /\ \A i \in DOMAIN explanation.x : Len(explanation.x[i]) = Len(explanation.feature_names)

\* C21: for each explained row, top_features has min(5, number of features)
\* entries, each a feature with its attribution for the row; no feature
\* left out has a larger absolute attribution than a listed one; the
\* entries are in non-increasing order of absolute attribution; the summary
\* names as increasing only listed features with attribution > 0 and as
\* decreasing only listed features with attribution < 0.
C21_TopFeatures ==
    Explained =>
        \A i \in DOMAIN explanation.x :
            LET row == explanation.x[i]
                names == explanation.feature_names
                top == explanation.result.explanations[i].top_features
                groups == explanation.result.explanations[i].explanation
                listed == { top[k][1] : k \in DOMAIN top }
                At(nm) == row[IndexOf(names, nm)]
            IN /\ Len(top) = Min(5, Len(names))
               /\ Cardinality(listed) = Len(top)
               /\ \A k \in DOMAIN top :
                     top[k][1] \in Range(names) /\ top[k][2] = At(top[k][1])
               /\ \A nm \in listed : \A other \in Range(names) \ listed :
                     Abs(At(other)) <= Abs(At(nm))
               /\ \A k \in 1..(Len(top) - 1) : Abs(top[k][2]) >= Abs(top[k + 1][2])
               /\ \A nm \in Range(groups.increasing) : nm \in listed /\ At(nm) > 0
               /\ \A nm \in Range(groups.decreasing) : nm \in listed /\ At(nm) < 0

\* a row of six features was explained: five are listed, some named as
\* increasing and some as decreasing
C21_Witness ==
    /\ Explained
    /\ \E i \in DOMAIN explanation.x :
          /\ Len(explanation.x[i]) = 6
          /\ Len(explanation.result.explanations[i].top_features) = 5
          /\ explanation.result.explanations[i].explanation.increasing # <<>>
          /\ explanation.result.explanations[i].explanation.decreasing # <<>>

\* C22: with an explainer that emits one attribution set per class, an
\* explain_prediction call during which the explainer does not raise
\* explains every row by the positive-class attributions together with the
\* positive-class base value.
C22_PositiveClassTogether ==
    (/\ explanation.op = "explain_prediction"
     /\ explainer # NoneObj
     /\ PerClass(explainer)
     /\ ~explanation.raises) =>
        /\ explanation.result # EmptyDict
        /\ \A i \in DOMAIN explanation.x :
              /\ explanation.result.explanations[i].shap_values =
                     DictOf(Zip(explanation.feature_names, explanation.x[i]))
              /\ explanation.result.explanations[i].base_value = BaseValues[2]

\* C18: whenever the instance holds a model, its preprocessor was last
\* fitted by the training run that created the model, and its
\* feature_columns are the column list of that run.
C18_SameRunArtifacts ==
    model # NoneObj =>
        /\ preprocessor.fit_in = model.run
        /\ feature_columns = model.feature_columns

\* what the call of a thread returns when it runs alone on the instance
Alone(th) ==
    CASE th.op = "predict" -> predict(Self, th.cmls, th.threshold)
      [] th.op = "get_feature_importance" -> get_feature_importance(Self)
      [] th.op = "get_metrics" -> get_metrics(Self)

\* C17: however predict, get_feature_importance and get_metrics calls of
\* several threads interleave on one loaded instance, no step changes
\* model, preprocessor, feature_columns or metrics, and every call returns
\* what it returns when it runs alone.
C17_ConcurrentReadsSafe ==
    [][/\ UNCHANGED <<model, preprocessor, feature_columns, metrics>>
       /\ \A t \in 1..MaxThreads :
             (threads[t].pc # "done" /\ threads'[t].pc = "done") =>
                 threads'[t].returned = Alone(threads'[t])]_vars

\* one predict call returned its results while another one, on a different
\* batch, was between its transform and its predict_proba
C17_Witness ==
    \E t, u \in 1..MaxThreads :
        /\ threads[t].pc = "done"
        /\ threads[t].op = "predict"
        /\ threads[t].returned.raised = "none"
        /\ threads[t].returned.results # NoResults
        /\ threads[u].pc = "predict_proba"
        /\ threads[u].cmls # threads[t].cmls

====
